---- MODULE Spec2Model ----
(***************************************************************************)
(* A model of ghi (github.com/nomnel/ghi): the frontmatter codec           *)
(* (EncodeMarkdown / DecodeMarkdown), the atomic file writer               *)
(* (AtomicWriteFile) and the subcommand handlers of cmd/ghi/main.go.       *)
(*                                                                         *)
(* Byte strings are sequences of one-character strings, so that splitting  *)
(* on newline, trimming and joining are computed as the code computes      *)
(* them.  Three specifications share the module:                           *)
(*   Spec        the codec: encode a (title, body) pair or take a raw      *)
(*               document, then decode it;                                 *)
(*   SpecAtomic  one call of AtomicWriteFile, statement by statement, with *)
(*               failing system calls and a crash at any point;            *)
(*   SpecCli     one invocation of the command line tool.                  *)
(***************************************************************************)
EXTENDS Integers, Sequences, FiniteSets, TLC

VARIABLES
    \* ---- codec ----
    stage,      \* "start" | "encoded" | "decoded"
    origin,     \* "none" | "encoder" | "file": where raw came from
    title,      \* Frontmatter.Title handed to EncodeMarkdown
    body,       \* body handed to EncodeMarkdown
    raw,        \* the document bytes
    decoded,    \* the return values of DecodeMarkdown(raw)
    \* ---- atomic writer ----
    apc,        \* position inside AtomicWriteFile
    data,       \* argument data
    perm,       \* argument perm
    old,        \* the destination file when the call started
    dest,       \* the file at the destination path
    tmpfile,    \* the temporary file in the destination's directory
    tmp,        \* the local variable tmp: "unset" | "file" | "nil"
    aerr,       \* the returned error ("none" while running, "nil" on success)
    crashed,    \* the process died inside the call
    \* ---- command line ----
    runs,       \* invocations of the tool so far
    cmd,        \* the subcommand of the last invocation
    argv,       \* its arguments
    exitCode,   \* its exit status
    errKind,    \* the kind of the ExitError it ended with ("none" if none)
    failed,     \* the tracker-client call whose failure ended it
    procCalls,  \* the external processes it ran
    sent,       \* the update it sent to the tracker
    dirs,       \* the directories that exist, among issues and issues/tmp
    files,      \* the files issues/<n>.md
    remote,     \* the issues on the tracker
    tmpLeft,    \* the temporary files left behind under issues/
    gitResult   \* what gh.RunGitDiff returned to it, if it was called

codecVars  == <<stage, origin, title, body, raw, decoded>>
atomicVars == <<apc, data, perm, old, dest, tmpfile, tmp, aerr, crashed>>
cliVars    == <<runs, cmd, argv, exitCode, errKind, failed, procCalls, sent,
                dirs, files, remote, tmpLeft, gitResult>>
vars       == <<stage, origin, title, body, raw, decoded,
                apc, data, perm, old, dest, tmpfile, tmp, aerr, crashed,
                runs, cmd, argv, exitCode, errKind, failed, procCalls, sent,
                dirs, files, remote, tmpLeft, gitResult>>

(***************************************************************************)
(* Bounds                                                                  *)
(***************************************************************************)
MaxTitleLines == 2
MaxBodyLines == 2
MaxDocLines == 4

(***************************************************************************)
(* Characters and byte strings                                             *)
(***************************************************************************)
LF == "\n"
CR == "\r"
SP == " "

\* unicode.IsSpace restricted to the characters that occur here
IsSpaceChar(c) == c \in {SP, LF, CR, "\t"}

\* const frontmatterDelimiter = "---"
frontmatterDelimiter == <<"-", "-", "-">>

RECURSIVE TrimLeft(_)
TrimLeft(s) ==
    IF s # <<>> /\ IsSpaceChar(Head(s)) THEN TrimLeft(Tail(s)) ELSE s

RECURSIVE TrimRight(_)
TrimRight(s) ==
    IF s # <<>> /\ IsSpaceChar(s[Len(s)])
    THEN TrimRight(SubSeq(s, 1, Len(s) - 1))
    ELSE s

\* strings.TrimSpace
TrimSpace(s) == TrimRight(TrimLeft(s))

\* index of the first newline of s, 0 if there is none
IndexLF(s) ==
    IF \E i \in 1..Len(s) : s[i] = LF
    THEN CHOOSE i \in 1..Len(s) : s[i] = LF /\ \A j \in 1..(i - 1) : s[j] # LF
    ELSE 0

\* strings.Split(s, "\n"): always at least one element
RECURSIVE Split(_)
Split(s) ==
    LET i == IndexLF(s) IN
    IF i = 0 THEN <<s>>
    ELSE <<SubSeq(s, 1, i - 1)>> \o Split(SubSeq(s, i + 1, Len(s)))

\* strings.Join(lines, "\n")
RECURSIVE Join(_)
Join(lines) ==
    IF lines = <<>> THEN <<>>
    ELSE IF Len(lines) = 1 THEN lines[1]
    ELSE lines[1] \o <<LF>> \o Join(Tail(lines))

HasPrefix(s, p) == Len(s) >= Len(p) /\ SubSeq(s, 1, Len(p)) = p

\* all sequences of 1..n elements of S
RECURSIVE SeqsUpTo(_, _)
SeqsUpTo(S, n) ==
    IF n = 0 THEN {}
    ELSE LET shorter == SeqsUpTo(S, n - 1) IN
         {<<x>> : x \in S} \cup shorter \cup
         {Append(s, x) : s \in {t \in shorter : Len(t) = n - 1}, x \in S}

(***************************************************************************)
(* gopkg.in/yaml.v3 as EncodeMarkdown and DecodeMarkdown use it            *)
(*                                                                         *)
(* The struct has one field, Title string `yaml:"title,omitempty"`.  The   *)
(* operators below follow the library's emitter for strings over letters,  *)
(* '-', space and newline whose lines are not empty (the titles of this    *)
(* model), and its parser for the headers the model can produce.           *)
(***************************************************************************)
TitleKey == <<"t", "i", "t", "l", "e", ":", " ">>

HasLF(s) == \E i \in 1..Len(s) : s[i] = LF

\* yaml_emitter_analyze_scalar: the flags that decide the scalar style
LeadingSpace(s)  == s # <<>> /\ s[1] = SP
TrailingSpace(s) == s # <<>> /\ s[Len(s)] = SP
SpaceBreak(s)    == \E i \in 1..(Len(s) - 1) : s[i] = SP /\ s[i + 1] = LF
BreakSpace(s)    == \E i \in 1..(Len(s) - 1) : s[i] = LF /\ s[i + 1] = SP
BlockIndicators(s) ==
    \/ HasPrefix(s, frontmatterDelimiter)
    \/ s # <<>> /\ s[1] = "-" /\ (Len(s) = 1 \/ s[2] \in {SP, LF})

BlockPlainAllowed(s) ==
    /\ s # <<>>
    /\ ~HasLF(s)
    /\ ~LeadingSpace(s) /\ ~TrailingSpace(s)
    /\ ~BlockIndicators(s)
    /\ s[1] \notin {"'", "\"", "|", "{"}
SingleQuotedAllowed(s) == ~BreakSpace(s) /\ ~SpaceBreak(s)
BlockAllowed(s) == ~TrailingSpace(s) /\ ~SpaceBreak(s)

\* encoder.stringv + yaml_emitter_select_scalar_style: a string with a line
\* break is emitted as a literal block scalar when the emitter allows it, any
\* other string as a plain scalar when the emitter allows it
ScalarStyle(s) ==
    IF HasLF(s)
    THEN IF BlockAllowed(s) THEN "literal" ELSE "double"
    ELSE IF BlockPlainAllowed(s) THEN "plain"
         ELSE IF SingleQuotedAllowed(s) THEN "single" ELSE "double"

\* encoder.SetIndent(2)
Indent == <<SP, SP>>

\* yaml_emitter_write_double_quoted_scalar: a line break is written as \n
RECURSIVE EscapeDouble(_)
EscapeDouble(s) ==
    IF s = <<>> THEN <<>>
    ELSE (IF Head(s) = LF THEN <<"\\", "n">> ELSE <<Head(s)>>)
         \o EscapeDouble(Tail(s))

\* yaml_emitter_write_literal_scalar: every line of the value on a line of
\* its own, indented; an empty line is not indented
RECURSIVE LiteralLines(_)
LiteralLines(ls) ==
    IF ls = <<>> THEN <<>>
    ELSE <<LF>> \o (IF ls[1] = <<>> THEN <<>> ELSE Indent \o ls[1])
         \o LiteralLines(Tail(ls))

\* yaml_emitter_write_block_scalar_hints: an indentation indicator when the
\* value starts with a space, the strip indicator when it does not end with
\* a line break
BlockHints(s) == (IF LeadingSpace(s) THEN <<"2">> ELSE <<>>) \o <<"-">>

\* The bytes yaml.Encoder.Encode writes for Frontmatter{Title: t}
YamlMarshal(t) ==
    IF t = <<>> THEN <<"{", "}", LF>>
    ELSE TitleKey \o
         (CASE ScalarStyle(t) = "plain"   -> t
            [] ScalarStyle(t) = "single"  -> <<"'">> \o t \o <<"'">>
            [] ScalarStyle(t) = "double"  -> <<"\"">> \o EscapeDouble(t) \o <<"\"">>
            [] ScalarStyle(t) = "literal" ->
                   <<"|">> \o BlockHints(t) \o LiteralLines(Split(t)))
         \o <<LF>>

IsBlank(l) == TrimSpace(l) = <<>>

RECURSIVE DropBlankHead(_)
DropBlankHead(ls) ==
    IF ls # <<>> /\ IsBlank(Head(ls)) THEN DropBlankHead(Tail(ls)) ELSE ls

RECURSIVE DropBlankTail(_)
DropBlankTail(ls) ==
    IF ls # <<>> /\ IsBlank(ls[Len(ls)])
    THEN DropBlankTail(SubSeq(ls, 1, Len(ls) - 1))
    ELSE ls

\* number of leading spaces of a line
RECURSIVE LeadingSpaces(_)
LeadingSpaces(l) ==
    IF l # <<>> /\ Head(l) = SP THEN 1 + LeadingSpaces(Tail(l)) ELSE 0

\* the escapes of a double-quoted scalar; <<"!">> marks an escape the model
\* does not know
RECURSIVE UnescapeDouble(_)
UnescapeDouble(s) ==
    IF s = <<>> THEN <<>>
    ELSE IF Head(s) = "\\"
         THEN IF Len(s) >= 2 /\ s[2] = "n"
              THEN <<LF>> \o UnescapeDouble(SubSeq(s, 3, Len(s)))
              ELSE <<"!">>
         ELSE <<Head(s)>> \o UnescapeDouble(Tail(s))

YamlOk(t) == [err |-> FALSE, Title |-> t]
YamlErr   == [err |-> TRUE, Title |-> <<>>]

\* the value of a one-line scalar: single-quoted, double-quoted or plain
ParseFlowScalar(rest) ==
    LET n == Len(rest)
        inner == SubSeq(rest, 2, n - 1)
        closed(q) == n >= 2 /\ rest[n] = q /\ (\A i \in 2..(n - 1) : rest[i] # q)
    IN
    IF rest # <<>> /\ rest[1] = "'"
    THEN IF closed("'") THEN YamlOk(inner) ELSE YamlErr
    ELSE IF rest # <<>> /\ rest[1] = "\""
    THEN IF closed("\"")
            /\ (\A j \in 1..Len(UnescapeDouble(inner)) :
                    UnescapeDouble(inner)[j] # "!")
         THEN YamlOk(UnescapeDouble(inner))
         ELSE YamlErr
    ELSE IF BlockPlainAllowed(rest) THEN YamlOk(rest) ELSE YamlErr

\* the value of a literal block scalar with strip chomping: the content lines
\* without their indentation, joined by newlines; the indentation is the one
\* the header gives, else that of the first content line
ParseLiteral(hints, content) ==
    LET body1 == DropBlankTail(content)
        first == DropBlankHead(body1)
        ind == IF hints = <<"2", "-">> THEN 2
               ELSE IF first = <<>> THEN 0 ELSE LeadingSpaces(first[1])
        strip(l) == SubSeq(l, ind + 1, Len(l))
    IN
    IF hints \notin {<<"-">>, <<"2", "-">>} THEN YamlErr
    ELSE IF body1 = <<>> THEN YamlOk(<<>>)
    ELSE IF ind = 0 \/ \E i \in 1..Len(body1) :
                          ~IsBlank(body1[i]) /\ LeadingSpaces(body1[i]) < ind
    THEN YamlErr
    ELSE YamlOk(Join([i \in 1..Len(body1) |-> strip(body1[i])]))

\* yaml.Unmarshal(text, &fm) for fm a zero Frontmatter: an empty document
\* leaves fm zero, a mapping with the one key title sets fm.Title, and a
\* document whose root is a scalar, or that repeats the key, is an error
YamlUnmarshal(text) ==
    LET core == DropBlankTail(DropBlankHead(Split(text))) IN
    IF core = <<>> THEN YamlOk(<<>>)
    ELSE IF HasPrefix(core[1], TitleKey \o <<"|">>)
    THEN ParseLiteral(SubSeq(core[1], Len(TitleKey) + 2, Len(core[1])),
                      Tail(core))
    ELSE IF Len(core) # 1 THEN YamlErr
    ELSE IF core[1] = <<"{", "}">> THEN YamlOk(<<>>)
    ELSE IF HasPrefix(core[1], TitleKey)
    THEN ParseFlowScalar(SubSeq(core[1], Len(TitleKey) + 1, Len(core[1])))
    ELSE YamlErr

(***************************************************************************)
(* The codec: internal/filefmt/md.go                                       *)
(***************************************************************************)
\* EncodeMarkdown writing the closing delimiter without its newline
EncodeMarkdownNoNewline(t, b) ==
    frontmatterDelimiter \o <<LF>> \o YamlMarshal(t)
        \o frontmatterDelimiter \o b

\* EncodeMarkdown(fm, body): the encoder never fails for this struct
EncodeMarkdown(t, b) ==
    frontmatterDelimiter \o <<LF>> \o YamlMarshal(t)
        \o frontmatterDelimiter \o <<LF>> \o b

\* the first condition with strings.HasPrefix in place of the comparison
OpeningOkHasPrefix(lines) ==
    Len(lines) # 0 /\ HasPrefix(TrimSpace(lines[1]), frontmatterDelimiter)

\* the first condition of DecodeMarkdown: the first line is the delimiter
OpeningOk(lines) ==
    Len(lines) # 0 /\ TrimSpace(lines[1]) = frontmatterDelimiter

\* the loop taking the end of the input as the closing delimiter
ClosingIdxAtEnd(lines) ==
    IF \E i \in 2..Len(lines) : TrimSpace(lines[i]) = frontmatterDelimiter
    THEN (CHOOSE i \in 2..Len(lines) :
              /\ TrimSpace(lines[i]) = frontmatterDelimiter
              /\ \A j \in 2..(i - 1) :
                     TrimSpace(lines[j]) # frontmatterDelimiter) - 1
    ELSE Len(lines)

\* the loop without its break: the last delimiter line closes the header
ClosingIdxLast(lines) ==
    IF \E i \in 2..Len(lines) : TrimSpace(lines[i]) = frontmatterDelimiter
    THEN (CHOOSE i \in 2..Len(lines) :
              /\ TrimSpace(lines[i]) = frontmatterDelimiter
              /\ \A j \in (i + 1)..Len(lines) :
                     TrimSpace(lines[j]) # frontmatterDelimiter) - 1
    ELSE -1

\* the loop of DecodeMarkdown, 0-based as in the code: the index of the
\* first line after line 0 that is the delimiter, -1 if there is none
ClosingIdx(lines) ==
    IF \E i \in 2..Len(lines) : TrimSpace(lines[i]) = frontmatterDelimiter
    THEN (CHOOSE i \in 2..Len(lines) :
              /\ TrimSpace(lines[i]) = frontmatterDelimiter
              /\ \A j \in 2..(i - 1) :
                     TrimSpace(lines[j]) # frontmatterDelimiter) - 1
    ELSE -1

\* the body DecodeMarkdown returns: the lines after the closing delimiter
BodyOf(lines, closingIdx) ==
    LET bodyStartIdx == closingIdx + 1 IN
    IF bodyStartIdx < Len(lines)
    THEN Join(SubSeq(lines, bodyStartIdx + 1, Len(lines)))
    ELSE <<>>

DecodeError(e) ==
    [err |-> e, fmNil |-> TRUE, Title |-> <<>>, bodyNil |-> TRUE, body |-> <<>>]

\* DecodeMarkdown(raw): err is "nil", "ErrMalformedFrontmatter" (an error
\* wrapping model.ErrMalformedFrontmatter) or "yaml" (an error wrapping the
\* YAML library's)
DecodeMarkdown(r) ==
    LET lines == Split(r)
        closingIdx == ClosingIdx(lines)
        fm == YamlUnmarshal(Join(SubSeq(lines, 2, closingIdx)))
    IN
    IF ~OpeningOk(lines) THEN DecodeError("ErrMalformedFrontmatter")
    ELSE IF closingIdx = -1 THEN DecodeError("ErrMalformedFrontmatter")
    ELSE IF fm.err THEN DecodeError("yaml")
    ELSE [err |-> "nil", fmNil |-> FALSE, Title |-> fm.Title,
          bodyNil |-> FALSE, body |-> BodyOf(lines, closingIdx)]


(***************************************************************************)
(* Specification Spec: the codec                                           *)
(***************************************************************************)
\* the lines titles are made of: none is empty
TitleLineSet == {<<"a">>, <<"-", "-", "-">>, <<SP>>, <<"-">>}
\* Frontmatter.Title values: the empty title and 1..MaxTitleLines lines
Titles == {<<>>} \cup {Join(ls) : ls \in SeqsUpTo(TitleLineSet, MaxTitleLines)}

\* the lines bodies are made of
BodyLineSet ==
    {<<>>, <<"a">>, <<"-", "-", "-">>, <<SP, "-", "-", "-", SP>>, <<"a", CR>>}
\* bodies: 1..MaxBodyLines lines joined by newlines (one empty line is the
\* empty body)
Bodies == {Join(ls) : ls \in SeqsUpTo(BodyLineSet, MaxBodyLines)}

\* the lines of the documents given to DecodeMarkdown directly
DocLineSet ==
    {<<"-", "-", "-">>, <<SP, "-", "-", "-", CR>>, <<"-", "-", "-", "-">>,
     <<>>, <<"a">>, TitleKey \o <<"a">>}
RawDocs == {Join(ls) : ls \in SeqsUpTo(DocLineSet, MaxDocLines)}

NotDecoded ==
    [err |-> "none", fmNil |-> TRUE, Title |-> <<>>, bodyNil |-> TRUE,
     body |-> <<>>]

CodecIdle ==
    /\ stage = "idle" /\ origin = "none"
    /\ title = <<>> /\ body = <<>> /\ raw = <<>>
    /\ decoded = NotDecoded

AbsentFile == [exists |-> FALSE, content |-> <<>>, mode |-> 0]

AtomicIdle ==
    /\ apc = "idle" /\ data = <<>> /\ perm = 0
    /\ old = AbsentFile /\ dest = AbsentFile /\ tmpfile = AbsentFile
    /\ tmp = "unset" /\ aerr = "none" /\ crashed = FALSE

NoUpdate == [made |-> FALSE, id |-> <<>>, hasTitle |-> FALSE, title |-> <<>>,
             body |-> <<>>]

\* gh.RunGitDiff was not called
NoGit == [ran |-> FALSE, err |-> FALSE, code |-> 0]

CliIdle ==
    /\ runs = 0 /\ cmd = "none" /\ argv = <<>>
    /\ exitCode = 0 /\ errKind = "none" /\ failed = "none"
    /\ procCalls = 0 /\ sent = NoUpdate
    /\ dirs = {} /\ files = <<>> /\ remote = <<>> /\ tmpLeft = {}
    /\ gitResult = NoGit

\* the inputs: a (title, body) pair for EncodeMarkdown, or a document for
\* DecodeMarkdown
Init ==
    /\ stage = "start"
    /\ \/ origin = "encoder" /\ title \in Titles /\ body \in Bodies
          /\ raw = <<>>
       \/ origin = "file" /\ title = <<>> /\ body = <<>> /\ raw \in RawDocs
    /\ decoded = NotDecoded
    /\ AtomicIdle /\ CliIdle

Encode ==
    /\ stage = "start" /\ origin = "encoder"
    /\ raw' = EncodeMarkdown(title, body)
    /\ stage' = "encoded"
    /\ UNCHANGED <<origin, title, body, decoded>>
    /\ UNCHANGED <<atomicVars, cliVars>>

Decode ==
    /\ \/ stage = "encoded"
       \/ stage = "start" /\ origin = "file"
    /\ decoded' = DecodeMarkdown(raw)
    /\ stage' = "decoded"
    /\ UNCHANGED <<origin, title, body, raw>>
    /\ UNCHANGED <<atomicVars, cliVars>>

Next == Encode \/ Decode

Spec == Init /\ [][Next]_vars

(***************************************************************************)
(* The atomic file writer: AtomicWriteFile, internal/filefmt/md.go         *)
(***************************************************************************)
MaxDataLen == 2

\* file contents: at most MaxDataLen bytes
DataSet == {<<>>} \cup SeqsUpTo({"x", "y"}, MaxDataLen)

\* 0o644 and 0o600
Perm644 == 420
Perm600 == 384
Perms == {Perm644, Perm600}

File(c, m) == [exists |-> TRUE, content |-> c, mode |-> m]

Prefixes(d) == {SubSeq(d, 1, n) : n \in 0..Len(d)}
ProperPrefixes(d) == {SubSeq(d, 1, n) : n \in 0..(Len(d) - 1)}

\* the state when AtomicWriteFile(path, data, perm) is called: the
\* destination is absent or holds some content
InitAtomic ==
    /\ apc = "createTemp"
    /\ data \in DataSet
    /\ perm \in Perms
    /\ old \in {AbsentFile} \cup {File(c, m) : c \in DataSet, m \in Perms}
    /\ dest = old
    /\ tmpfile = AbsentFile
    /\ tmp = "unset"
    /\ aerr = "none"
    /\ crashed = FALSE
    /\ CodecIdle /\ CliIdle

\* tmp, err := os.CreateTemp(dir, ...): the file is created empty with mode
\* 0600 in the destination's directory; on failure the function returns
\* before the deferred function is registered
ACreateTemp ==
    /\ apc = "createTemp" /\ ~crashed
    /\ \/ /\ tmpfile' = File(<<>>, Perm600)
          /\ tmp' = "file"
          /\ apc' = "write"
          /\ aerr' = aerr
       \/ /\ aerr' = "createTemp"
          /\ apc' = "returned"
          /\ UNCHANGED <<tmpfile, tmp>>
    /\ UNCHANGED <<data, perm, old, dest, crashed>>
    /\ UNCHANGED <<codecVars, cliVars>>

\* the data written to the destination path instead of the temporary file
AWriteInPlace ==
    /\ apc = "write" /\ ~crashed
    /\ \/ /\ dest' = File(data, IF dest.exists THEN dest.mode ELSE Perm600)
          /\ apc' = "sync"
          /\ aerr' = aerr
       \/ /\ \E w \in Prefixes(data) :
                 dest' = File(w, IF dest.exists THEN dest.mode ELSE Perm600)
          /\ aerr' = "write"
          /\ apc' = "deferred"
    /\ UNCHANGED <<data, perm, old, tmpfile, tmp, crashed>>
    /\ UNCHANGED <<codecVars, cliVars>>

\* tmp.Write(data): a failed write may have written a proper prefix
AWrite ==
    /\ apc = "write" /\ ~crashed
    /\ \/ /\ tmpfile' = [tmpfile EXCEPT !.content = data]
          /\ apc' = "sync"
          /\ aerr' = aerr
       \/ /\ \E w \in ProperPrefixes(data) :
                 tmpfile' = [tmpfile EXCEPT !.content = w]
          /\ aerr' = "write"
          /\ apc' = "deferred"
       \/ /\ data = <<>>
          /\ aerr' = "write"
          /\ apc' = "deferred"
          /\ tmpfile' = tmpfile
    /\ UNCHANGED <<data, perm, old, dest, tmp, crashed>>
    /\ UNCHANGED <<codecVars, cliVars>>

\* tmp.Sync() with the call going on at os.Chmod, the file left open
ASyncThenChmod ==
    /\ apc = "sync" /\ ~crashed
    /\ \/ apc' = "chmod" /\ aerr' = aerr
       \/ apc' = "deferred" /\ aerr' = "sync"
    /\ UNCHANGED <<data, perm, old, dest, tmpfile, tmp, crashed>>
    /\ UNCHANGED <<codecVars, cliVars>>

\* tmp.Sync()
ASync ==
    /\ apc = "sync" /\ ~crashed
    /\ \/ apc' = "close" /\ aerr' = aerr
       \/ apc' = "deferred" /\ aerr' = "sync"
    /\ UNCHANGED <<data, perm, old, dest, tmpfile, tmp, crashed>>
    /\ UNCHANGED <<codecVars, cliVars>>

\* tmp.Close(), and tmp = nil once it succeeded
AClose ==
    /\ apc = "close" /\ ~crashed
    /\ \/ apc' = "chmod" /\ tmp' = "nil" /\ aerr' = aerr
       \/ apc' = "deferred" /\ tmp' = tmp /\ aerr' = "close"
    /\ UNCHANGED <<data, perm, old, dest, tmpfile, crashed>>
    /\ UNCHANGED <<codecVars, cliVars>>

\* the permissions left as os.CreateTemp set them
AChmodSkipped ==
    /\ apc = "chmod" /\ ~crashed
    /\ \/ apc' = "rename" /\ aerr' = aerr
       \/ apc' = "deferred" /\ aerr' = "chmod"
    /\ UNCHANGED <<data, perm, old, dest, tmpfile, tmp, crashed>>
    /\ UNCHANGED <<codecVars, cliVars>>

\* os.Chmod(tmpName, perm)
AChmod ==
    /\ apc = "chmod" /\ ~crashed
    /\ \/ /\ tmpfile' = [tmpfile EXCEPT !.mode = perm]
          /\ apc' = "rename"
          /\ aerr' = aerr
       \/ /\ apc' = "deferred"
          /\ aerr' = "chmod"
          /\ tmpfile' = tmpfile
    /\ UNCHANGED <<data, perm, old, dest, tmp, crashed>>
    /\ UNCHANGED <<codecVars, cliVars>>

\* os.Rename(tmpName, path): replaces the destination in one step or fails
\* and changes nothing; return nil follows
ARename ==
    /\ apc = "rename" /\ ~crashed
    /\ \/ /\ dest' = tmpfile
          /\ tmpfile' = AbsentFile
          /\ aerr' = "nil"
       \/ /\ aerr' = "rename"
          /\ UNCHANGED <<dest, tmpfile>>
    /\ apc' = "deferred"
    /\ UNCHANGED <<data, perm, old, tmp, crashed>>
    /\ UNCHANGED <<codecVars, cliVars>>

\* the deferred function, run when the function returns:
\* if tmp != nil { tmp.Close(); os.Remove(tmpName) }
ADeferred ==
    /\ apc = "deferred" /\ ~crashed
    /\ tmpfile' = IF tmp # "nil" THEN AbsentFile ELSE tmpfile
    /\ apc' = "returned"
    /\ UNCHANGED <<data, perm, old, dest, tmp, aerr, crashed>>
    /\ UNCHANGED <<codecVars, cliVars>>

\* the process dies inside the call; a crash during tmp.Write leaves any
\* prefix of data in the temporary file
ACrash ==
    /\ apc \notin {"returned", "idle"} /\ ~crashed
    /\ crashed' = TRUE
    /\ IF apc = "write"
       THEN \E w \in Prefixes(data) : tmpfile' = [tmpfile EXCEPT !.content = w]
       ELSE tmpfile' = tmpfile
    /\ UNCHANGED <<apc, data, perm, old, dest, tmp, aerr>>
    /\ UNCHANGED <<codecVars, cliVars>>

NextAtomic ==
    \/ ACreateTemp \/ AWrite \/ ASync \/ AClose \/ AChmod \/ ARename
    \/ ADeferred \/ ACrash

SpecAtomic == InitAtomic /\ [][NextAtomic]_vars

(***************************************************************************)
(* The command line tool: cmd/ghi/main.go, with the tracker client         *)
(* (package gh) and the error types (package model)                        *)
(***************************************************************************)
MaxRuns == 2

\* ExitSuccess, ExitUsage, ExitEnv, ExitIO
ExitSuccess == 0
ExitUsage == 1
ExitEnv == 2
ExitIO == 3

Digits == {"0", "1", "2", "3", "4", "5", "6", "7", "8", "9"}

\* model.IsNumeric: ^[0-9]+$
IsNumeric(a) == a # <<>> /\ \A i \in 1..Len(a) : a[i] \in Digits

\* the issue numbers of the model
Ids == {<<"1">>, <<"2">>}

\* the first command line argument: numbers, and strings that are not
ArgSet == Ids \cup {<<"1", "x">>, <<>>, <<SP>>}
\* the argument vectors after the subcommand
ArgVectors ==
    {<<>>} \cup {<<a>> : a \in ArgSet} \cup {<< <<"1">>, <<"-", "-">> >>}

NoIssue == [exists |-> FALSE, title |-> <<>>, body |-> <<>>, open |-> FALSE]
Issue(t, b, o) == [exists |-> TRUE, title |-> t, body |-> b, open |-> o]

RemoteTitles == {<<"a">>, <<SP>>, <<"a", LF, "-", "-", "-">>}
RemoteBodies == {<<>>, <<"-", "-", "-", LF, "a">>}

\* the contents issues/1.md starts with: pulled earlier, edited, or damaged
LocalDocs ==
    {EncodeMarkdown(<<"a">>, <<>>),
     EncodeMarkdown(<<>>, <<"a">>),
     EncodeMarkdown(<<SP>>, <<"-", "-", "-", LF, "a">>),
     <<"a">>,
     frontmatterDelimiter \o <<LF>> \o TitleKey \o <<"a">>,
     frontmatterDelimiter \o <<LF, "a", LF>> \o frontmatterDelimiter}

InitCli ==
    /\ runs = 0 /\ cmd = "none" /\ argv = <<>>
    /\ exitCode = 0 /\ errKind = "none" /\ failed = "none"
    /\ procCalls = 0 /\ sent = NoUpdate
    /\ tmpLeft = {}
    /\ gitResult = NoGit
    /\ \E t \in RemoteTitles, b \in RemoteBodies :
           remote = [i \in Ids |-> IF i = <<"1">> THEN Issue(t, b, TRUE)
                                   ELSE NoIssue]
    /\ \E f1 \in {AbsentFile} \cup {File(d, Perm644) : d \in LocalDocs},
          f2 \in {AbsentFile, File(EncodeMarkdown(<<"a">>, <<>>), Perm644)} :
           files = [i \in Ids |-> IF i = <<"1">> THEN f1 ELSE f2]
    /\ dirs \in {{}, {"issues"}}
    /\ (\E i \in Ids : files[i].exists) => "issues" \in dirs
    /\ CodecIdle /\ AtomicIdle

\* the state an invocation ends in
Done(code, kind, fail, calls, upd, d, f, r, t) ==
    [exitCode |-> code, errKind |-> kind, failed |-> fail, procCalls |-> calls,
     sent |-> upd, dirs |-> d, files |-> f, remote |-> r, tmpLeft |-> t,
     git |-> NoGit]

\* NewUsageError, NewEnvError, NewIOError and success, for an invocation
\* that changed nothing but what is named
UsageError == Done(ExitUsage, "Usage", "none", 0, NoUpdate, dirs, files, remote, tmpLeft)
EnvError(fail, calls, upd, d, r, t) ==
    Done(ExitEnv, "Env", fail, calls, upd, d, files, r, t)
IOError(fail, calls, d, f, r, t) ==
    Done(ExitIO, "IO", fail, calls, NoUpdate, d, f, r, t)

\* AtomicWriteFile(path, data, perm) as one call on the file f at path: the
\* error, the file at path afterwards, and whether the temporary file is
\* left in the directory (the deferred removal runs only while tmp != nil,
\* that is up to a failed tmp.Close)
AtomicWriteFile(f, d, p) ==
    {[err |-> e, dest |-> f, left |-> {}] :
        e \in {"createTemp", "write", "sync", "close"}}
    \cup {[err |-> e, dest |-> f, left |-> {"atomic"}] :
        e \in {"chmod", "rename"}}
    \cup {[err |-> "nil", dest |-> File(d, p), left |-> {}]}

\* gh.ViewIssue returning an issue without title and body when the process
\* failed
ViewIssueEmptyOnFailure(rem, id) ==
    {[ok |-> FALSE, calls |-> 0, issue |-> NoIssue],
     [ok |-> TRUE, calls |-> 1, issue |-> Issue(<<>>, <<>>, TRUE)]}
    \cup (IF id \in Ids /\ rem[id].exists
          THEN {[ok |-> TRUE, calls |-> 1, issue |-> rem[id]]}
          ELSE {})

\* gh.ViewIssue(issueNumber): gh is missing (no process is run), the process
\* fails or prints what cannot be parsed, or the issue is returned
ViewIssue(rem, id) ==
    {[ok |-> FALSE, calls |-> c, issue |-> NoIssue] : c \in {0, 1}}
    \cup (IF id \in Ids /\ rem[id].exists
          THEN {[ok |-> TRUE, calls |-> 1, issue |-> rem[id]]}
          ELSE {})

\* gh issue edit given every title that is not the empty string
EditCallNonEmpty(id, t, b) ==
    LET withTitle == t # <<>> IN
    [made |-> TRUE, id |-> id, hasTitle |-> withTitle,
     title |-> IF withTitle THEN t ELSE <<>>, body |-> b]

\* the arguments gh.EditIssue passes to gh issue edit
EditCall(id, t, b) ==
    LET withTitle == t # <<>> /\ TrimSpace(t) # <<>> IN
    [made |-> TRUE, id |-> id, hasTitle |-> withTitle,
     title |-> IF withTitle THEN t ELSE <<>>, body |-> b]

\* gh.EditIssue(issueNumber, title, bodyFile), b being the content of bodyFile
EditIssue(rem, id, t, b) ==
    LET call == EditCall(id, t, b) IN
    {[ok |-> FALSE, calls |-> 0, sent |-> NoUpdate, remote |-> rem],
     [ok |-> FALSE, calls |-> 1, sent |-> call, remote |-> rem]}
    \cup (IF id \in Ids /\ rem[id].exists
          THEN {[ok |-> TRUE, calls |-> 1, sent |-> call,
                 remote |-> [rem EXCEPT
                     ![id].title = IF call.hasTitle THEN t ELSE @,
                     ![id].body = b]]}
          ELSE {})

\* the number the tracker gives the next issue; <<>> when the model has none
NextNumber(rem) == IF rem[<<"2">>].exists THEN <<>> ELSE <<"2">>

\* gh.CreateIssue(title), GetRepositoryInfo included: gh is missing, the
\* repository cannot be resolved (one process), the POST fails (two
\* processes), its answer cannot be used although the issue exists, or the
\* new number is returned
CreateIssue(rem, t) ==
    LET n == NextNumber(rem)
        created == [rem EXCEPT ![n] = Issue(t, <<>>, TRUE)]
    IN
    {[ok |-> FALSE, calls |-> 0, fail |-> "CreateIssue", remote |-> rem,
      number |-> <<>>],
     [ok |-> FALSE, calls |-> 1, fail |-> "GetRepositoryInfo", remote |-> rem,
      number |-> <<>>],
     [ok |-> FALSE, calls |-> 2, fail |-> "CreateIssue", remote |-> rem,
      number |-> <<>>]}
    \cup (IF n # <<>>
          THEN {[ok |-> FALSE, calls |-> 2, fail |-> "CreateIssue",
                 remote |-> created, number |-> <<>>],
                [ok |-> TRUE, calls |-> 2, fail |-> "none",
                 remote |-> created, number |-> n]}
          ELSE {})

\* gh.CloseIssue / gh.ReopenIssue
SetOpen(rem, id, o) ==
    {[ok |-> FALSE, calls |-> c, remote |-> rem] : c \in {0, 1}}
    \cup (IF id \in Ids /\ rem[id].exists
          THEN {[ok |-> TRUE, calls |-> 1,
                 remote |-> [rem EXCEPT ![id].open = o]]}
          ELSE {})

\* the exit statuses of a git diff that failed
DiffFailCodes == {2, 128}

\* gh.RunGitDiff(tmpPath, localPath, extraArgs): git is missing or cannot be
\* started (an error), or git's exit status: 0 for equal files, 1 for
\* different files, another status when git failed
RunGitDiff(remoteDoc, localDoc) ==
    {[err |-> TRUE, code |-> 2, calls |-> c] : c \in {0, 1}}
    \cup {[err |-> FALSE, code |-> c, calls |-> 1] : c \in DiffFailCodes}
    \cup {[err |-> FALSE, code |-> IF remoteDoc = localDoc THEN 0 ELSE 1,
           calls |-> 1]}

\* the values (exitCode, err) of gh.RunGitDiff as runDiff received them
Returned(g) == [ran |-> TRUE, err |-> g.err, code |-> g.code]

\* the Args validators of the cobra commands
ArgsValid(c, args) == IF c = "diff" THEN Len(args) >= 1 ELSE Len(args) = 1

\* runPull with the issues directory made before the identifier is checked
runPullMkdirFirst(args) ==
    LET issueNumber == args[1]
        d1 == dirs \cup {"issues"}
    IN
    IF ~IsNumeric(issueNumber)
    THEN {Done(ExitUsage, "Usage", "none", 0, NoUpdate, d1, files, remote,
               tmpLeft)}
    ELSE {IOError("none", 0, dirs, files, remote, tmpLeft)}
         \cup UNION {
            IF ~v.ok
            THEN {EnvError("ViewIssue", v.calls, NoUpdate, d1, remote, tmpLeft)}
            ELSE {IF w.err # "nil"
                  THEN IOError("none", v.calls, d1, files, remote,
                               tmpLeft \cup w.left)
                  ELSE Done(ExitSuccess, "none", "none", v.calls, NoUpdate, d1,
                            [files EXCEPT ![issueNumber] = w.dest], remote,
                            tmpLeft)
                  : w \in AtomicWriteFile(files[issueNumber],
                            EncodeMarkdown(v.issue.title, v.issue.body),
                            Perm644)}
            : v \in ViewIssue(remote, issueNumber)}

\* runPull
runPull(args) ==
    LET issueNumber == args[1]
        d1 == dirs \cup {"issues"}
    IN
    IF ~IsNumeric(issueNumber) THEN {UsageError}
    ELSE {IOError("none", 0, dirs, files, remote, tmpLeft)}
         \cup UNION {
            IF ~v.ok
            THEN {EnvError("ViewIssue", v.calls, NoUpdate, d1, remote, tmpLeft)}
            ELSE {IF w.err # "nil"
                  THEN IOError("none", v.calls, d1, files, remote,
                               tmpLeft \cup w.left)
                  ELSE Done(ExitSuccess, "none", "none", v.calls, NoUpdate, d1,
                            [files EXCEPT ![issueNumber] = w.dest], remote,
                            tmpLeft)
                  : w \in AtomicWriteFile(files[issueNumber],
                            EncodeMarkdown(v.issue.title, v.issue.body),
                            Perm644)}
            : v \in ViewIssue(remote, issueNumber)}

\* runPush going on to the update with whatever DecodeMarkdown returned
runPushDecodeUnchecked(args) ==
    LET issueNumber == args[1]
        f == files[issueNumber]
        dec == DecodeMarkdown(f.content)
    IN
    IF ~IsNumeric(issueNumber) THEN {UsageError}
    ELSE IF ~f.exists THEN {IOError("none", 0, dirs, files, remote, tmpLeft)}
    ELSE {IOError("none", 0, dirs, files, remote, tmpLeft)}
         \cup {IF e.ok
               THEN Done(ExitSuccess, "none", "none", e.calls, e.sent,
                         dirs, files, e.remote, tmpLeft)
               ELSE EnvError("EditIssue", e.calls, e.sent, dirs,
                             e.remote, tmpLeft)
               : e \in EditIssue(remote, issueNumber, dec.Title, dec.body)}

\* runPush
runPush(args) ==
    LET issueNumber == args[1]
        f == files[issueNumber]
        dec == DecodeMarkdown(f.content)
    IN
    IF ~IsNumeric(issueNumber) THEN {UsageError}
    ELSE IF ~f.exists THEN {IOError("none", 0, dirs, files, remote, tmpLeft)}
    ELSE {IOError("none", 0, dirs, files, remote, tmpLeft)}
         \cup (IF dec.err # "nil" THEN {}
               ELSE {IF e.ok
                     THEN Done(ExitSuccess, "none", "none", e.calls, e.sent,
                               dirs, files, e.remote, tmpLeft)
                     ELSE EnvError("EditIssue", e.calls, e.sent, dirs,
                                   e.remote, tmpLeft)
                     : e \in EditIssue(remote, issueNumber, dec.Title,
                                       dec.body)})

\* runDiff exiting with 1 on every status of git diff other than 0
runDiffAnyStatusDiffers(args) ==
    LET issueNumber == args[1]
        f == files[issueNumber]
        d1 == dirs \cup {"issues/tmp"}
    IN
    IF ~IsNumeric(issueNumber) THEN {UsageError}
    ELSE IF ~f.exists THEN {IOError("none", 0, dirs, files, remote, tmpLeft)}
    ELSE {IOError("none", 0, dirs, files, remote, tmpLeft)}
         \cup UNION {
            IF ~v.ok
            THEN {EnvError("ViewIssue", v.calls, NoUpdate, dirs, remote, tmpLeft)}
            ELSE {IOError("none", v.calls, dirs, files, remote, tmpLeft),
                  IOError("none", v.calls, d1, files, remote, tmpLeft)}
                 \cup {[(IF g.err
                         THEN EnvError("none", v.calls + g.calls, NoUpdate, d1,
                                       remote, tmpLeft)
                         ELSE IF g.code = 0
                         THEN Done(ExitSuccess, "none", "none",
                                   v.calls + g.calls, NoUpdate, d1, files,
                                   remote, tmpLeft)
                         ELSE Done(1, "none", "none", v.calls + g.calls,
                                   NoUpdate, d1, files, remote,
                                   tmpLeft \cup {"diff"}))
                        EXCEPT !.git = Returned(g)]
                       : g \in RunGitDiff(
                            EncodeMarkdown(v.issue.title, v.issue.body),
                            f.content)}
            : v \in ViewIssue(remote, issueNumber)}

\* runDiff
runDiff(args) ==
    LET issueNumber == args[1]
        f == files[issueNumber]
        d1 == dirs \cup {"issues/tmp"}
    IN
    IF ~IsNumeric(issueNumber) THEN {UsageError}
    ELSE IF ~f.exists THEN {IOError("none", 0, dirs, files, remote, tmpLeft)}
    ELSE {IOError("none", 0, dirs, files, remote, tmpLeft)}
         \cup UNION {
            IF ~v.ok
            THEN {EnvError("ViewIssue", v.calls, NoUpdate, dirs, remote, tmpLeft)}
            ELSE {IOError("none", v.calls, dirs, files, remote, tmpLeft),
                  IOError("none", v.calls, d1, files, remote, tmpLeft)}
                 \cup {[(IF g.err
                         THEN EnvError("none", v.calls + g.calls, NoUpdate, d1,
                                       remote, tmpLeft)
                         ELSE IF g.code = 0
                         THEN Done(ExitSuccess, "none", "none",
                                   v.calls + g.calls, NoUpdate, d1, files,
                                   remote, tmpLeft)
                         ELSE IF g.code = 1
                         THEN Done(1, "none", "none", v.calls + g.calls,
                                   NoUpdate, d1, files, remote,
                                   tmpLeft \cup {"diff"})
                         ELSE EnvError("none", v.calls + g.calls, NoUpdate, d1,
                                       remote, tmpLeft))
                        EXCEPT !.git = Returned(g)]
                       : g \in RunGitDiff(
                            EncodeMarkdown(v.issue.title, v.issue.body),
                            f.content)}
            : v \in ViewIssue(remote, issueNumber)}

\* runCreate
runCreate(args) ==
    LET t == TrimSpace(args[1])
        d1 == dirs \cup {"issues"}
    IN
    IF t = <<>> THEN {UsageError}
    ELSE UNION {
        IF ~c.ok
        THEN {EnvError(c.fail, c.calls, NoUpdate, dirs, c.remote, tmpLeft)}
        ELSE {IOError("none", c.calls, dirs, files, c.remote, tmpLeft)}
             \cup UNION {
                IF ~v.ok
                THEN {IOError("ViewIssue", c.calls + v.calls, d1, files,
                              c.remote, tmpLeft)}
                ELSE UNION {
                    IF w.err # "nil"
                    THEN {IOError("none", c.calls + v.calls, d1, files,
                                  c.remote, tmpLeft \cup w.left)}
                    ELSE {IOError("none", c.calls + v.calls, d1,
                                  [files EXCEPT ![c.number] = w.dest],
                                  c.remote, tmpLeft),
                          Done(ExitSuccess, "none", "none", c.calls + v.calls,
                               NoUpdate, d1,
                               [files EXCEPT ![c.number] = w.dest], c.remote,
                               tmpLeft)}
                    : w \in AtomicWriteFile(files[c.number],
                              EncodeMarkdown(v.issue.title, v.issue.body),
                              Perm644)}
                : v \in ViewIssue(c.remote, c.number)}
        : c \in CreateIssue(remote, t)}

\* runClose
runClose(args) ==
    LET issueNumber == args[1] IN
    IF ~IsNumeric(issueNumber) THEN {UsageError}
    ELSE {IF r.ok
          THEN Done(ExitSuccess, "none", "none", r.calls, NoUpdate, dirs, files,
                    r.remote, tmpLeft)
          ELSE EnvError("CloseIssue", r.calls, NoUpdate, dirs, r.remote, tmpLeft)
          : r \in SetOpen(remote, issueNumber, FALSE)}

\* runReopen
runReopen(args) ==
    LET issueNumber == args[1] IN
    IF ~IsNumeric(issueNumber) THEN {UsageError}
    ELSE {IF r.ok
          THEN Done(ExitSuccess, "none", "none", r.calls, NoUpdate, dirs, files,
                    r.remote, tmpLeft)
          ELSE EnvError("ReopenIssue", r.calls, NoUpdate, dirs, r.remote,
                        tmpLeft)
          : r \in SetOpen(remote, issueNumber, TRUE)}

\* main: an error that is not an ExitError (cobra rejecting the arguments)
\* exits with ExitIO; an ExitError exits with its code
main(c, args, results) ==
    IF ~ArgsValid(c, args)
    THEN {IOError("none", 0, dirs, files, remote, tmpLeft)}
    ELSE results

\* one invocation of subcommand c with arguments args ending in state r
Invoke(c, args, r) ==
    /\ runs' = runs + 1
    /\ cmd' = c
    /\ argv' = args
    /\ exitCode' = r.exitCode
    /\ errKind' = r.errKind
    /\ failed' = r.failed
    /\ procCalls' = r.procCalls
    /\ sent' = r.sent
    /\ dirs' = r.dirs
    /\ files' = r.files
    /\ remote' = r.remote
    /\ tmpLeft' = r.tmpLeft
    /\ gitResult' = r.git
    /\ UNCHANGED <<codecVars, atomicVars>>

RunPull ==
    /\ runs < MaxRuns
    /\ \E args \in ArgVectors :
           \E r \in main("pull", args, runPull(args)) : Invoke("pull", args, r)

RunPush ==
    /\ runs < MaxRuns
    /\ \E args \in ArgVectors :
           \E r \in main("push", args, runPush(args)) : Invoke("push", args, r)

RunDiff ==
    /\ runs < MaxRuns
    /\ \E args \in ArgVectors :
           \E r \in main("diff", args, runDiff(args)) : Invoke("diff", args, r)

RunCreate ==
    /\ runs < MaxRuns
    /\ \E args \in ArgVectors :
           \E r \in main("create", args, runCreate(args)) :
               Invoke("create", args, r)

RunClose ==
    /\ runs < MaxRuns
    /\ \E args \in ArgVectors :
           \E r \in main("close", args, runClose(args)) :
               Invoke("close", args, r)

RunReopen ==
    /\ runs < MaxRuns
    /\ \E args \in ArgVectors :
           \E r \in main("reopen", args, runReopen(args)) :
               Invoke("reopen", args, r)

NextCli == RunPull \/ RunPush \/ RunDiff \/ RunCreate \/ RunClose \/ RunReopen

SpecCli == InitCli /\ [][NextCli]_vars

(***************************************************************************)
(* Properties of the codec (specification Spec)                            *)
(***************************************************************************)
\* the first line of a document: the bytes before its first newline
FirstLine(r) == IF IndexLF(r) = 0 THEN r ELSE SubSeq(r, 1, IndexLF(r) - 1)

\* r without its first n lines and their newlines
RECURSIVE DropLines(_, _)
DropLines(r, n) ==
    IF n = 0 THEN r
    ELSE IF IndexLF(r) = 0 THEN <<>>
    ELSE DropLines(SubSeq(r, IndexLF(r) + 1, Len(r)), n - 1)

IsDelimiterLine(l) == TrimSpace(l) = frontmatterDelimiter

\* the numbers (from 1) of the lines after the first that are delimiters
ClosingLines(r) ==
    {i \in 2..Len(Split(r)) : IsDelimiterLine(Split(r)[i])}

FirstClosing(r) ==
    CHOOSE i \in ClosingLines(r) : \A j \in ClosingLines(r) : i <= j

\* C1: for every non-empty title and every body, decoding the encoded
\* document succeeds and returns the original title and the original body.
RoundTrip ==
    (stage = "decoded" /\ origin = "encoder" /\ title # <<>>)
        => /\ decoded.err = "nil"
           /\ decoded.Title = title
           /\ decoded.body = body

\* C6: a document whose first line, trimmed, is not the delimiter is
\* rejected with ErrMalformedFrontmatter, and neither metadata nor body is
\* returned.
MissingOpeningRejected ==
    (stage = "decoded" /\ ~IsDelimiterLine(FirstLine(raw)))
        => /\ decoded.err = "ErrMalformedFrontmatter"
           /\ decoded.fmNil /\ decoded.bodyNil

WitnessMissingOpening ==
    /\ stage = "decoded" /\ origin = "file"
    /\ FirstLine(raw) = <<"-", "-", "-", "-">>
    /\ ClosingLines(raw) # {}
    /\ decoded.err = "ErrMalformedFrontmatter"

\* C7: a document whose first line is the delimiter and that has no later
\* delimiter line is rejected with ErrMalformedFrontmatter.
MissingClosingRejected ==
    (stage = "decoded" /\ IsDelimiterLine(FirstLine(raw))
        /\ ClosingLines(raw) = {})
        => /\ decoded.err = "ErrMalformedFrontmatter"
           /\ decoded.fmNil /\ decoded.bodyNil

WitnessMissingClosing ==
    /\ stage = "decoded" /\ origin = "file"
    /\ IsDelimiterLine(FirstLine(raw))
    /\ ClosingLines(raw) = {}
    /\ Len(Split(raw)) >= 3
    /\ Split(raw)[2] = TitleKey \o <<"a">>
    /\ decoded.err = "ErrMalformedFrontmatter"

\* the lines between the opening delimiter and the first closing one
HeaderOf(r) == Join(SubSeq(Split(r), 2, FirstClosing(r) - 1))

\* C8: the first delimiter line after line 1 closes the header: a document
\* with an opening and a closing delimiter is never reported as malformed
\* frontmatter, it decodes without error exactly when the lines before that
\* delimiter are metadata the YAML parser accepts, and the body returned is
\* exactly the bytes after the newline of that line (the empty sequence when
\* it is the last line), later delimiter lines, spaces and carriage returns
\* included.
BodyAfterFirstClosing ==
    (stage = "decoded" /\ IsDelimiterLine(FirstLine(raw))
        /\ ClosingLines(raw) # {})
        => /\ decoded.err # "ErrMalformedFrontmatter"
           /\ decoded.err = "nil" <=> ~YamlUnmarshal(HeaderOf(raw)).err
           /\ decoded.err = "nil" =>
                  /\ ~decoded.bodyNil
                  /\ decoded.body = DropLines(raw, FirstClosing(raw))

WitnessBodyAfterFirstClosing ==
    /\ stage = "decoded" /\ origin = "file"
    /\ decoded.err = "nil"
    /\ Cardinality(ClosingLines(raw)) >= 2
    /\ decoded.body = <<SP, "-", "-", "-", CR, LF, "a">>

\* C9: a document encoded with the empty title decodes without error to the
\* empty title and the original body.
EmptyTitleDecodes ==
    (stage = "decoded" /\ origin = "encoder" /\ title = <<>>)
        => /\ decoded.err = "nil"
           /\ decoded.Title = <<>>
           /\ decoded.body = body

WitnessEmptyTitle ==
    /\ stage = "decoded" /\ origin = "encoder" /\ title = <<>>
    /\ body = <<"a">> \o <<LF>> \o frontmatterDelimiter
    /\ decoded.err = "nil"

(***************************************************************************)
(* Properties of the atomic writer (specification SpecAtomic)              *)
(***************************************************************************)
\* C2: a call that fails at one of the steps before the rename returns with
\* the temporary file removed and the destination untouched.
CleanupBeforeRename ==
    (apc = "returned"
        /\ aerr \in {"createTemp", "write", "sync", "close", "chmod"})
        => ~tmpfile.exists /\ dest = old

\* C3: a call whose rename fails returns with the destination unchanged and
\* the temporary file removed.
CleanupOnRenameFailure ==
    (apc = "returned" /\ aerr = "rename")
        => ~tmpfile.exists /\ dest = old

\* C4: in every state of a call, a crash after any step included, the
\* destination holds its old content (or is absent) or the complete new
\* content.
NoPartialVisibility ==
    \/ dest = old
    \/ dest.exists /\ dest.content = data

WitnessCrashMidWrite ==
    /\ crashed /\ apc = "write"
    /\ old.exists /\ old.content # data
    /\ tmpfile.exists /\ tmpfile.content # <<>> /\ tmpfile.content # data
    /\ dest = old

\* C5: a successful call on a path that held different content leaves the
\* destination with exactly the new bytes and the requested permissions,
\* and no temporary file.
SuccessReplaces ==
    (apc = "returned" /\ aerr = "nil" /\ old.exists /\ old.content # data)
        => dest = File(data, perm) /\ ~tmpfile.exists

WitnessSuccessReplaces ==
    /\ apc = "returned" /\ aerr = "nil"
    /\ old.exists /\ old.content # data /\ old.content # <<>>
    /\ old.mode # perm
    /\ dest.content = data

\* the positions of a call in the order of the function's text
StepOrder ==
    <<"createTemp", "write", "sync", "close", "chmod", "rename", "deferred",
      "returned">>

StepNo(p) == CHOOSE i \in 1..Len(StepOrder) : StepOrder[i] = p

\* C16: a call goes through create, write, sync, close, chmod and rename
\* in this order, each at most once, leaving the order only to return
\* when a step failed; the temporary file comes into being at the first
\* step only, its content changes at the write only, it is closed at the
\* close only, its permissions change at the chmod only, and the
\* destination changes at the rename only, to the temporary file as it
\* then is; after the rename succeeded no file is touched any more.
StepsInFixedOrder ==
    [][/\ apc' # apc
           => \/ StepNo(apc') = StepNo(apc) + 1
              \/ apc' \in {"deferred", "returned"}
                    /\ StepNo(apc') > StepNo(apc) /\ aerr' = apc
       /\ apc' = apc => crashed'
       /\ (~tmpfile.exists /\ tmpfile'.exists) => apc = "createTemp"
       /\ (tmpfile.exists /\ tmpfile'.exists
              /\ tmpfile'.content # tmpfile.content) => apc = "write"
       /\ (tmp # "nil" /\ tmp' = "nil") => apc = "close"
       /\ (tmpfile.exists /\ tmpfile'.exists /\ tmpfile'.mode # tmpfile.mode)
              => apc = "chmod"
       /\ dest' # dest
              => apc = "rename" /\ dest' = tmpfile /\ ~tmpfile'.exists
       /\ aerr = "nil" => UNCHANGED <<dest, tmpfile>>]_vars

WitnessAllStepsDone ==
    /\ apc = "returned" /\ aerr = "nil" /\ ~crashed
    /\ ~old.exists /\ data # <<>>
    /\ dest = File(data, perm) /\ tmp = "nil" /\ ~tmpfile.exists

(***************************************************************************)
(* Properties of the command line tool (specification SpecCli)             *)
(***************************************************************************)
\* C10: an invocation that ended because a call of the tracker client
\* failed exits with status 2 as an Environment error, whatever the
\* subcommand, the fetch inside create included.
ClientFailureIsEnvError ==
    (runs > 0 /\ failed # "none")
        => exitCode = ExitEnv /\ errKind = "Env"

\* C11: every invocation, whatever the subcommand and the path it takes,
\* runs at most one external process before it exits.
AtMostOneProcess ==
    runs > 0 => procCalls <= 1

\* the subcommands that take an issue number
IdCommands == {"pull", "push", "diff", "close", "reopen"}

\* a is not a non-empty string of decimal digits
NotDecimal(a) == a = <<>> \/ \E i \in 1..Len(a) : a[i] \notin Digits

\* C12: an invocation of pull, push, diff, close or reopen whose identifier
\* is not a non-empty string of decimal digits ends as a Usage error with
\* exit status 1 before anything else is done: no directory is created, no
\* file is written, no temporary file is left, no external process is run
\* and the tracker is not changed.
BadIdentifierRejectedFirst ==
    [][(cmd' \in IdCommands /\ ArgsValid(cmd', argv') /\ NotDecimal(argv'[1]))
          => /\ exitCode' = ExitUsage /\ errKind' = "Usage"
             /\ procCalls' = 0 /\ sent' = NoUpdate
             /\ UNCHANGED <<dirs, files, remote, tmpLeft>>]_vars

WitnessBadIdentifier ==
    /\ runs = 1 /\ cmd = "pull" /\ argv = << <<"1", "x">> >>
    /\ exitCode = ExitUsage /\ errKind = "Usage"
    /\ dirs = {} /\ procCalls = 0

\* t has a byte that is not white space
HasVisibleChar(t) == \E i \in 1..Len(t) : ~IsSpaceChar(t[i])

\* C13: the update push sends carries the title decoded from the file
\* exactly when that title has a byte that is not white space, and carries
\* no title otherwise; either way the body file holds exactly the decoded
\* body, the empty body included; a push that succeeded has sent an update.
PushTitleIffNonEmpty ==
    /\ (runs > 0 /\ cmd = "push" /\ sent.made)
           => LET dec == DecodeMarkdown(files[argv[1]].content) IN
              /\ dec.err = "nil"
              /\ sent.id = argv[1]
              /\ sent.hasTitle <=> HasVisibleChar(dec.Title)
              /\ sent.hasTitle => sent.title = dec.Title
              /\ sent.body = dec.body
    /\ (runs > 0 /\ cmd = "push" /\ exitCode = ExitSuccess) => sent.made

WitnessPushWithoutTitle ==
    /\ cmd = "push" /\ exitCode = ExitSuccess
    /\ sent.made /\ ~sent.hasTitle
    /\ DecodeMarkdown(files[argv[1]].content).Title = <<SP>>
    /\ sent.body = <<"-", "-", "-", LF, "a">>

\* C14: a push of a numbered issue whose file issues/<id>.md is missing,
\* or does not decode (no opening delimiter, no closing delimiter, or
\* metadata the YAML parser rejects), ends as an IO/Parse error with exit
\* status 3; and a push that ends so, an unreadable file included, or whose
\* file is missing or does not decode, has run no process, sent no update
\* and left the tracker as it was.
PushNeedsDecodedFile ==
    [][(cmd' = "push" /\ ArgsValid(cmd', argv') /\ ~NotDecimal(argv'[1]))
          => LET f == files[argv'[1]]
                 undecodable ==
                     ~f.exists \/ DecodeMarkdown(f.content).err # "nil"
             IN
             /\ undecodable => exitCode' = ExitIO /\ errKind' = "IO"
             /\ (undecodable \/ exitCode' = ExitIO)
                    => /\ sent' = NoUpdate
                       /\ procCalls' = 0
                       /\ remote' = remote]_vars

WitnessPushUnparsable ==
    /\ cmd = "push" /\ exitCode = ExitIO /\ errKind = "IO"
    /\ Len(argv) = 1 /\ argv[1] \in Ids
    /\ files[argv[1]].exists
    /\ DecodeMarkdown(files[argv[1]].content).err = "yaml"
    /\ ~sent.made

\* C15: a diff that ran the diff tool ends by the tool's exit status: on
\* status 0 it exits with 0 and no error, on status 1 it exits with 1, and
\* on any other status, or when the tool could not be run, it ends as an
\* Environment error with exit status 2.
DiffStatusMapped ==
    (runs > 0 /\ cmd = "diff" /\ gitResult.ran)
        => IF ~gitResult.err /\ gitResult.code = 0
           THEN exitCode = ExitSuccess /\ errKind = "none"
           ELSE IF ~gitResult.err /\ gitResult.code = 1
           THEN exitCode = 1 /\ errKind = "none"
           ELSE exitCode = ExitEnv /\ errKind = "Env"

WitnessDiffToolFailed ==
    /\ cmd = "diff" /\ gitResult.ran
    /\ ~gitResult.err /\ gitResult.code = 128
    /\ exitCode = ExitEnv /\ errKind = "Env"
    /\ procCalls = 2

\* C17: a pull of a numbered issue changes no file but issues/<id>.md, and
\* that one only when it succeeded: a pull whose fetch failed leaves every
\* file as it was, and after a pull that succeeded the file is exactly
\* EncodeMarkdown of the title and body the issue has on the tracker,
\* whatever it held before.
PullOverwritesAfterFetch ==
    [][(cmd' = "pull" /\ ArgsValid(cmd', argv') /\ ~NotDecimal(argv'[1]))
          => LET id == argv'[1] IN
             /\ \A i \in Ids \ {id} : files'[i] = files[i]
             /\ failed' = "ViewIssue" => files' = files
             /\ files'[id] # files[id] => exitCode' = ExitSuccess
             /\ exitCode' = ExitSuccess
                    => /\ remote[id].exists
                       /\ files'[id].exists
                       /\ files'[id].content =
                              EncodeMarkdown(remote[id].title, remote[id].body)
                       /\ remote' = remote]_vars

WitnessPullReplaced ==
    /\ runs = 1 /\ cmd = "pull" /\ exitCode = ExitSuccess
    /\ argv = << <<"1">> >>
    /\ remote[<<"1">>].title = <<"a", LF, "-", "-", "-">>
    /\ files[<<"1">>].content =
           EncodeMarkdown(remote[<<"1">>].title, remote[<<"1">>].body)
    /\ files[<<"2">>].exists

\* C18: whatever way a diff ends, the temporary file it made under
\* issues/tmp for the remote copy is gone when the process has exited.
DiffTempRemoved ==
    "diff" \notin tmpLeft

\* C19: a push of issue n that follows a successful pull of n, the file
\* not edited in between, decodes the file, sends the fetched body byte
\* for byte, sends the fetched title unless that title is empty or white
\* space only, in which case it sends none, and when it succeeds leaves the
\* title and body of the issue on the tracker as they were.
PullThenPushUnchanged ==
    [][(runs > 0 /\ cmd = "pull" /\ exitCode = ExitSuccess
          /\ cmd' = "push" /\ argv' = argv)
          => LET n == argv[1] IN
             /\ DecodeMarkdown(files[n].content).err = "nil"
             /\ sent'.made
                    => /\ sent'.body = remote[n].body
                       /\ sent'.hasTitle <=> HasVisibleChar(remote[n].title)
                       /\ sent'.hasTitle => sent'.title = remote[n].title
             /\ exitCode' = ExitSuccess => sent'.made /\ remote' = remote]_vars

====
